---- MODULE Spec2Model ----
(***************************************************************************)
(* Model of the inventory reorder application                              *)
(* (src/optimized_reorder_app.py): the extraction / reorder / order-status *)
(* pipeline as operators over data frames, and the Streamlit session       *)
(* (st.session_state, the st.cache_data cache of the feed fetch, the file  *)
(* uploader widget and the script run that every user action triggers) as *)
(* a state machine.  The top-N selectors are those of src/stock-app.py.    *)
(*                                                                         *)
(* Representation.                                                         *)
(*  - A string that the code inspects character by character (a product    *)
(*    code, a sold/stock text cell) is a sequence of one-character         *)
(*    strings: <<" ", "A">> is " A".                                       *)
(*  - A spreadsheet cell is a record [k, s, h]: k = "nan" (missing),       *)
(*    k = "str" (text s), k = "num" (the float h/2, so halves are exact),  *)
(*    k = "inf" (a cell pandas reads as a non-finite float: h is its sign).*)
(*  - numpy's int64 is modelled at IntBits bits, two's complement.         *)
(***************************************************************************)
EXTENDS Integers, Sequences, FiniteSets, TLC

VARIABLES
    \* ---- the extraction run (specification SpecExtract)
    data,            \* the raw dataset handed to extract_inventory_data
    extracted,       \* what extract_inventory_data returned and reported
    step,            \* position of the pure-function run: "input", then the
                     \* name of the last function applied
    again,           \* what a second extract_inventory_data call returned
    \* ---- the reorder / order-status run (specification SpecReorder)
    inventory,       \* the canonical frame handed to get_reorder_items
    reorder,         \* what get_reorder_items returned
    product_list,    \* the product_list handed to add_order_status
    stamped,         \* what add_order_status returned
    \* ---- the date-range run (specification SpecDates)
    date_range,      \* what extract_date_range returned
    \* ---- the export run (specification SpecExport)
    csv_data,        \* the text generate_csv_download returned
    \* ---- the feed fetch run (specification SpecFetch)
    answer,          \* what the remote request of the fetch answers
    fetch_result,    \* what fetch_google_sheet_data returned
    \* ---- the file load run (specification SpecLoad)
    load_messages,   \* what load_excel_data showed: its st.warning / st.error
    \* ---- the top-N run (specification SpecTop)
    top_rows,        \* what extract_top50 / extract_top200 returned
    \* ---- the Streamlit session (specification Spec)
    session_state,   \* st.session_state: key |-> value, for the keys present
    fetch_cache,     \* st.cache_data entries of fetch_google_sheet_data
    remote,          \* what each feed's remote request answers now
    uploader,        \* the file in the st.file_uploader widget: {} or {file}
    click,           \* the button whose click started the script run
    pc,              \* where the script run stands; "idle" between runs
    messages,        \* st.error / st.warning / st.info shown by this run
    shown,           \* the reorder table st.dataframe displayed in this run
    before,          \* history: the session and the cache as the button
                     \* handler that just ended found them (until st.rerun())
    history          \* history: the event that started the latest script run
                     \* (or a change of the remote since), and whether the
                     \* event before it was a refresh

pure_vars ==
    <<data, extracted, step, again, inventory, reorder, product_list, stamped,
      date_range, csv_data, answer, fetch_result, load_messages, top_rows>>

session_vars ==
    <<session_state, fetch_cache, remote, uploader, click, pc, messages, shown,
      before, history>>

vars == <<pure_vars, session_vars>>

----------------------------------------------------------------------------
\* Bounds of the model

\* most rows in a raw dataset / canonical frame drawn as an input
MaxRows == 2

\* width, in bits, at which numpy's int64 is modelled
IntBits == 5

----------------------------------------------------------------------------
\* Generic helpers

Range(s) == {s[i] : i \in 1..Len(s)}

\* boolean-mask indexing of a frame's rows, df[mask]: the elements of rows
\* whose mask entry is true, in order
Mask(rows, keep) ==
    LET tagged == [i \in 1..Len(rows) |-> [row |-> rows[i], keep |-> keep[i]]]
        kept == SelectSeq(tagged, LAMBDA t : t.keep)
    IN  [i \in 1..Len(kept) |-> kept[i].row]

----------------------------------------------------------------------------
\* Config

\* list(Config.COLUMN_MAPPING.keys()), in declaration order
required_cols == <<"Unnamed: 1", "Unnamed: 40", "Unnamed: 61">>

----------------------------------------------------------------------------
\* Cells and machine integers

IntMin == -(2 ^ (IntBits - 1))
IntMax == (2 ^ (IntBits - 1)) - 1

NaN == [k |-> "nan", s |-> <<>>, h |-> 0]
Str(t) == [k |-> "str", s |-> t, h |-> 0]
Num(halves) == [k |-> "num", s |-> <<>>, h |-> halves]
Inf(sign) == [k |-> "inf", s |-> <<>>, h |-> sign]

isna(c) == c.k = "nan"

Digits == <<"0", "1", "2", "3", "4", "5", "6", "7", "8", "9">>

DigitValue(ch) == (CHOOSE i \in 1..Len(Digits) : Digits[i] = ch) - 1

RECURSIVE DecimalValue(_, _)
\* the value of the digit string t read after the prefix value acc
DecimalValue(t, acc) ==
    IF t = <<>> THEN acc
    ELSE DecimalValue(Tail(t), 10 * acc + DigitValue(Head(t)))

\* str.strip(): leading and trailing blanks removed
RECURSIVE lstrip(_)
lstrip(t) == IF t # <<>> /\ Head(t) = " " THEN lstrip(Tail(t)) ELSE t

RECURSIVE rstrip(_)
rstrip(t) ==
    IF t # <<>> /\ t[Len(t)] = " " THEN rstrip(SubSeq(t, 1, Len(t) - 1)) ELSE t

strip(t) == rstrip(lstrip(t))

\* pd.to_numeric(cell, errors='coerce'): a number stays, a text of decimal
\* digits is parsed, every other text and a missing cell become NaN
to_numeric(c) ==
    CASE c.k = "num" -> c
      [] c.k = "inf" -> c
      [] c.k = "nan" -> NaN
      [] c.k = "str" ->
            IF c.s # <<>> /\ \A i \in 1..Len(c.s) : c.s[i] \in Range(Digits)
            THEN Num(2 * DecimalValue(c.s, 0))
            ELSE NaN

\* Series.fillna(0)
fillna0(c) == IF isna(c) THEN Num(0) ELSE c

\* astype(int) refuses a column holding a non-finite value (IntCastingNaNError)
castable(c) == c.k = "num"

\* float -> int64: truncation toward zero; a value outside the integer range
\* has no defined conversion and is not drawn as an input
trunc(h) == IF h >= 0 THEN h \div 2 ELSE -((-h) \div 2)

astype_int(c) == trunc(c.h)

\* wrap an integer into the two's complement range of the machine integer
wrap(n) == ((n - IntMin) % (2 ^ IntBits)) + IntMin

\* Series.abs() on int64: the negation wraps
abs(n) == IF n < 0 THEN wrap(-n) ELSE n

----------------------------------------------------------------------------
\* Raw datasets (what pd.read_excel hands over)

\* df.empty: no rows or no columns
empty(df) == df.rows = <<>> \/ df.columns = <<>>

EmptyCanonical == <<>>

\* validate_excel_structure stopping at the first absent column
validate_excel_structure_first_only(df) ==
    LET present == Range(df.columns)
        mask == [i \in 1..Len(required_cols) |-> required_cols[i] \notin present]
        missing_cols == Mask(required_cols, mask)
    IN  IF missing_cols # <<>> THEN [valid |-> FALSE, missing |-> <<missing_cols[1]>>]
        ELSE [valid |-> TRUE, missing |-> <<>>]

\* validate_excel_structure
validate_excel_structure(df) ==
    LET present == Range(df.columns)
        mask == [i \in 1..Len(required_cols) |-> required_cols[i] \notin present]
        missing_cols == Mask(required_cols, mask)
    IN  IF missing_cols # <<>> THEN [valid |-> FALSE, missing |-> missing_cols]
        ELSE [valid |-> TRUE, missing |-> <<>>]

\* the frame pd.DataFrame(columns=['Product Code', 'Unit Sold', 'Balance Stock'])
\* and what the call reported: nothing
Outcome(frame) ==
    [df |-> frame, missing_reported |-> FALSE, missing |-> <<>>,
     no_rows_warning |-> FALSE, error |-> FALSE, negative_stock |-> 0]

\* new_data = data[required_cols].copy().dropna(how='all'): the rows that
\* hold a value in at least one of the three columns
dropna_all(rows) ==
    Mask(rows, [i \in 1..Len(rows) |->
                  \E j \in 1..Len(required_cols) : ~isna(rows[i][required_cols[j]])])

\* pd.to_numeric(column, errors='coerce').fillna(0), cell by cell
coerced(rows, col) == [i \in 1..Len(rows) |-> fillna0(to_numeric(rows[i][col]))]

\* the try block of extract_inventory_data raises when astype(int) meets a
\* non-finite value in either numeric column
raises(rows) ==
    LET sold == coerced(rows, "Unnamed: 40")
        stock == coerced(rows, "Unnamed: 61")
    IN  \E i \in 1..Len(rows) : ~castable(sold[i]) \/ ~castable(stock[i])

\* a Product Code that astype(str).str.strip() leaves empty
blank(c) == c.k = "str" /\ strip(c.s) = <<>>

\* the renamed, converted frame before the Product Code filter
converted(rows) ==
    LET sold == coerced(rows, "Unnamed: 40")
        stock == coerced(rows, "Unnamed: 61")
    IN  [i \in 1..Len(rows) |->
            [ProductCode |-> rows[i]["Unnamed: 1"],
             UnitSold |-> abs(astype_int(sold[i])),
             BalanceStock |-> astype_int(stock[i])]]

\* dropna(subset=['Product Code']) then the strip() != '' filter
drop_no_code(frame) ==
    LET coded == Mask(frame, [i \in 1..Len(frame) |-> ~isna(frame[i].ProductCode)])
    IN  Mask(coded, [i \in 1..Len(coded) |-> ~blank(coded[i].ProductCode)])

extract_inventory_data(df) ==
    IF empty(df) THEN Outcome(EmptyCanonical)
    ELSE
      LET v == validate_excel_structure(df) IN
      IF ~v.valid
      THEN [Outcome(EmptyCanonical) EXCEPT !.missing_reported = TRUE,
                                           !.missing = v.missing]
      ELSE
        LET new_data == dropna_all(df.rows) IN
        IF new_data = <<>>
        THEN [Outcome(EmptyCanonical) EXCEPT !.no_rows_warning = TRUE]
        ELSE
          IF raises(new_data)
          THEN [Outcome(EmptyCanonical) EXCEPT !.error = TRUE]
          ELSE
            LET result == drop_no_code(converted(new_data)) IN
            [Outcome(result) EXCEPT
               !.negative_stock =
                   Cardinality({i \in 1..Len(result) : result[i].BalanceStock < 0})]

\* get_reorder_items comparing strictly
get_reorder_items_strict(inventory_data) ==
    IF inventory_data = <<>> THEN EmptyCanonical
    ELSE Mask(inventory_data,
              [i \in 1..Len(inventory_data) |->
                  inventory_data[i].UnitSold > inventory_data[i].BalanceStock])

\* get_reorder_items with the comparison turned round
get_reorder_items_reversed(inventory_data) ==
    IF inventory_data = <<>> THEN EmptyCanonical
    ELSE Mask(inventory_data,
              [i \in 1..Len(inventory_data) |->
                  inventory_data[i].UnitSold <= inventory_data[i].BalanceStock])

\* get_reorder_items: the rows with Unit Sold >= Balance Stock, index reset
get_reorder_items(inventory_data) ==
    IF inventory_data = <<>> THEN EmptyCanonical
    ELSE Mask(inventory_data,
              [i \in 1..Len(inventory_data) |->
                  inventory_data[i].UnitSold >= inventory_data[i].BalanceStock])

\* isin comparing after strip()
isin_stripped(c, list) == c.k = "str" /\ strip(c.s) \in Range(list)

\* Series.isin(product_list): the cell is a string equal to a listed string
isin(c, list) == c.k = "str" /\ c.s \in Range(list)

\* add_order_status: the frame with an Ordered column
add_order_status(list, df) ==
    IF df = <<>> THEN df
    ELSE [i \in 1..Len(df) |->
            [ProductCode |-> df[i].ProductCode,
             UnitSold |-> df[i].UnitSold,
             BalanceStock |-> df[i].BalanceStock,
             Ordered |-> IF isin(df[i].ProductCode, list)
                         THEN "Ordered" ELSE "Pending"]]

----------------------------------------------------------------------------
\* Upload handling: load_excel_data, extract_date_range

\* Config.MAX_ROWS
MAX_ROWS == 30000

\* df.head(n)
head(rows, n) == SubSeq(rows, 1, IF Len(rows) < n THEN Len(rows) ELSE n)

\* load_excel_data: None with st.error when pd.read_excel raises, None with
\* st.warning when the sheet is empty, else the first MAX_ROWS rows.  The
\* @st.cache_data memo around it answers a repeated call with the stored
\* result and shows the stored messages again: result and messages of a
\* call are those of the first call on that file.
load_excel_data(file) ==
    IF ~file.parses
    THEN [isnone |-> TRUE, df |-> file.df, messages |-> {"load_error"}]
    ELSE IF empty(file.df)
    THEN [isnone |-> TRUE, df |-> file.df, messages |-> {"empty_file_warning"}]
    ELSE IF Len(file.df.rows) > MAX_ROWS
    THEN [isnone |-> FALSE,
          df |-> [file.df EXCEPT !.rows = head(file.df.rows, MAX_ROWS)],
          messages |-> {"truncation_warning"}]
    ELSE [isnone |-> FALSE, df |-> file.df, messages |-> {}]

\* str(cell) of a missing cell and of a text cell
str(c) ==
    CASE c.k = "nan" -> <<"n", "a", "n">>
      [] c.k = "str" -> c.s

isdigit(t, i) == i >= 1 /\ i <= Len(t) /\ t[i] \in Range(Digits)

\* the text has exactly the character ch at position i
ischar(t, i, ch) == i >= 1 /\ i <= Len(t) /\ t[i] = ch

\* the longest run of lo..hi digits starting at i: its length, 0 when fewer
\* than lo digits stand there (greedy \d{lo,hi})
digit_run(t, i, lo, hi) ==
    LET fits == {n \in lo..hi : \A j \in i..(i + n - 1) : isdigit(t, j)}
    IN  IF fits = {} THEN 0 ELSE CHOOSE n \in fits : \A m \in fits : m <= n

\* re.match of \d{1,2}/\d{1,2}/\d{2,4} at position i: the position after the
\* match, 0 when there is none.  A digit run is always followed by "/" or
\* ends the pattern, so the greedy choice is the only one that can succeed,
\* except for the first two runs, where the separator decides.
match_slash(t, i) ==
    LET a == IF isdigit(t, i) /\ isdigit(t, i + 1) /\ ischar(t, i + 2, "/") THEN 2
             ELSE IF isdigit(t, i) /\ ischar(t, i + 1, "/") THEN 1 ELSE 0
        j == i + a + 1
        b == IF isdigit(t, j) /\ isdigit(t, j + 1) /\ ischar(t, j + 2, "/") THEN 2
             ELSE IF isdigit(t, j) /\ ischar(t, j + 1, "/") THEN 1 ELSE 0
        k == j + b + 1
        c == digit_run(t, k, 2, 4)
    IN  IF a = 0 \/ b = 0 \/ c = 0 THEN 0 ELSE k + c

\* re.match of \d{4}-\d{2}-\d{2} at position i
match_iso(t, i) ==
    IF /\ \A j \in i..(i + 3) : isdigit(t, j)
       /\ ischar(t, i + 4, "-")
       /\ isdigit(t, i + 5) /\ isdigit(t, i + 6)
       /\ ischar(t, i + 7, "-")
       /\ isdigit(t, i + 8) /\ isdigit(t, i + 9)
    THEN i + 10 ELSE 0

match_at(pattern, t, i) ==
    IF pattern = "slash" THEN match_slash(t, i) ELSE match_iso(t, i)

RECURSIVE findall(_, _, _)
\* re.findall(pattern, text) from position i: the non-overlapping matches,
\* leftmost first
findall(pattern, t, i) ==
    IF i > Len(t) THEN <<>>
    ELSE LET e == match_at(pattern, t, i) IN
         IF e = 0 THEN findall(pattern, t, i + 1)
         ELSE <<SubSeq(t, i, e - 1)>> \o findall(pattern, t, e)

\* Config.DATE_PATTERNS
DATE_PATTERNS == <<"slash", "iso">>

RECURSIVE unique(_, _)
\* "remove duplicates while preserving order": seen is the list built so far
unique(dates, seen) ==
    IF dates = <<>> THEN seen
    ELSE unique(Tail(dates),
                IF Head(dates) \in Range(seen) THEN seen
                ELSE Append(seen, Head(dates)))

\* extract_date_range: the first two distinct matches, pattern by pattern,
\* in the first cell of the last row
extract_date_range(df) ==
    IF empty(df) THEN <<>>
    ELSE LET last_row_text == str(df.rows[Len(df.rows)][df.columns[1]])
             dates == findall(DATE_PATTERNS[1], last_row_text, 1)
                      \o findall(DATE_PATTERNS[2], last_row_text, 1)
         IN  head(unique(dates, <<>>), 2)

----------------------------------------------------------------------------
\* Export: create_export_data, generate_csv_download.  The exported text is
\* a sequence of symbols: the characters of a product code and of a number,
\* the delimiters, and one symbol for a text the export never looks into (a
\* column name, a status, the timestamp).

\* Config.EXPORT_INCLUDE_TIMESTAMP
EXPORT_INCLUDE_TIMESTAMP == TRUE

\* the columns of a frame of records, in frame order, each with the field
\* that holds it
export_columns ==
    <<[name |-> "Product Code", field |-> "ProductCode"],
      [name |-> "Unit Sold", field |-> "UnitSold"],
      [name |-> "Balance Stock", field |-> "BalanceStock"],
      [name |-> "Ordered", field |-> "Ordered"],
      [name |-> "Export_Timestamp", field |-> "Export_Timestamp"]>>

columns_of(df) ==
    Mask(export_columns,
         [j \in 1..Len(export_columns) |-> export_columns[j].field \in DOMAIN df[1]])

\* create_export_data: a copy with an Export_Timestamp column holding the
\* clock reading
create_export_data(df, include_timestamp, now) ==
    IF include_timestamp
    THEN [i \in 1..Len(df) |->
            [f \in DOMAIN df[i] \cup {"Export_Timestamp"} |->
                IF f = "Export_Timestamp" THEN now ELSE df[i][f]]]
    ELSE df

RECURSIVE doubled(_)
\* the quote characters of a field doubled
doubled(t) ==
    IF t = <<>> THEN <<>>
    ELSE (IF Head(t) = "\"" THEN <<"\"", "\"">> ELSE <<Head(t)>>) \o doubled(Tail(t))

\* csv.QUOTE_MINIMAL: a field holding the delimiter, a quote or a line
\* break is written between quotes
quoted(t) ==
    IF \E i \in 1..Len(t) : t[i] \in {",", "\"", "\n", "\r"}
    THEN <<"\"">> \o doubled(t) \o <<"\"">>
    ELSE t

RECURSIVE digits_of(_)
digits_of(n) ==
    IF n < 10 THEN <<Digits[n + 1]>>
    ELSE digits_of(n \div 10) \o <<Digits[(n % 10) + 1]>>

\* str(int)
int_text(n) == IF n < 0 THEN <<"-">> \o digits_of(-n) ELSE digits_of(n)

\* a value as to_csv writes it
csv_field(field, v) ==
    CASE field = "ProductCode" -> quoted(str(v))
      [] field \in {"UnitSold", "BalanceStock"} -> int_text(v)
      [] OTHER -> quoted(<<v>>)

RECURSIVE join(_)
\* the fields of a line, a comma between them, the line ended
join(fields) ==
    IF Len(fields) = 1 THEN Head(fields) \o <<"\n">>
    ELSE Head(fields) \o <<",">> \o join(Tail(fields))

RECURSIVE csv_lines(_, _)
csv_lines(df, columns) ==
    IF df = <<>> THEN <<>>
    ELSE join([j \in 1..Len(columns) |->
                  csv_field(columns[j].field, Head(df)[columns[j].field])])
         \o csv_lines(Tail(df), columns)

\* generate_csv_download: df.to_csv(output, index=False), header first
generate_csv_download(df) ==
    LET columns == columns_of(df)
    IN  join([j \in 1..Len(columns) |-> quoted(<<columns[j].name>>)])
        \o csv_lines(df, columns)

----------------------------------------------------------------------------
\* Feeds: fetch_google_sheet_data and its st.cache_data cache

\* Config.SHEET_CONFIGS: the feeds.  Two of the four configured feeds are
\* modelled; the code treats every feed alike.
SHEET_CONFIGS == <<"DF Items", "Shandong Items">>

\* f"google_data_{sheet_name.lower().replace(' ', '_')}"
session_key(sheet_name) ==
    CASE sheet_name = "DF Items" -> "google_data_df_items"
      [] sheet_name = "Shandong Items" -> "google_data_shandong_items"
      [] sheet_name = "Taiwan Glass" -> "google_data_taiwan_glass"
      [] sheet_name = "Lug Cap" -> "google_data_lug_cap"

\* a dict with no key
EmptyMap == [x \in {} |-> x]

Put(f, key, v) == [x \in DOMAIN f \cup {key} |-> IF x = key THEN v ELSE f[x]]

Del(f, keys) == [x \in DOMAIN f \ keys |-> f[x]]

\* pd.DataFrame()
EmptyFrame == [columns |-> <<>>, rows |-> <<>>]

\* the padded row without the cut to the header width
normalized_pad_only(row, width) ==
    row \o [i \in 1..(IF width > Len(row) THEN width - Len(row) ELSE 0) |-> <<>>]

\* row + [''] * (len(headers) - len(row)), then [:len(headers)]
normalized(row, width) ==
    LET padded_row == row \o [i \in 1..(IF width > Len(row) THEN width - Len(row) ELSE 0)
                                |-> <<>>]
    IN  SubSeq(padded_row, 1, width)

\* df.dropna(how='all') on a frame of strings: a string, even '', is not
\* NA, so only a row without any cell is dropped
feed_dropna_all(rows) == Mask(rows, [i \in 1..Len(rows) |-> Len(rows[i]) > 0])

\* the body of fetch_google_sheet_data on the remote's response: None on a
\* missing secret or a failed request, the cleaned frame otherwise
fetch_remote(response) ==
    IF response.status # "ok" THEN [isnone |-> TRUE, df |-> EmptyFrame]
    ELSE IF response.values = <<>> THEN [isnone |-> FALSE, df |-> EmptyFrame]
    ELSE LET headers == Head(response.values)
             data_rows == Tail(response.values)
             normalized_rows ==
                 [i \in 1..Len(data_rows) |-> normalized(data_rows[i], Len(headers))]
         IN  [isnone |-> FALSE,
              df |-> [columns |-> headers, rows |-> feed_dropna_all(normalized_rows)]]

\* @st.cache_data(ttl=300) around fetch_google_sheet_data, the cache keyed by
\* the sheet: a cached result, None included, is returned without a request
fetch_google_sheet_data(cache, responses, sheet) ==
    IF sheet \in DOMAIN cache
    THEN [result |-> cache[sheet], cache |-> cache]
    ELSE [result |-> fetch_remote(responses[sheet]),
          cache |-> Put(cache, sheet, fetch_remote(responses[sheet]))]

\* sheet_data['Product Code'].dropna().tolist() when the column exists
product_codes(df) ==
    IF "Product Code" \notin Range(df.columns) THEN {}
    ELSE LET col == CHOOSE j \in 1..Len(df.columns) :
                        /\ df.columns[j] = "Product Code"
                        /\ \A m \in 1..(j - 1) : df.columns[m] # "Product Code"
         IN  {df.rows[i][col] : i \in 1..Len(df.rows)}

\* initialize_session_state
initialize_session_state(ss) ==
    IF "google_product_codes" \notin DOMAIN ss
    THEN Put(ss, "google_product_codes", {}) ELSE ss

\* load_sheet_data on st = [ss, cache]: fetch when the feed is not in the
\* session or on force_refresh; store the frame, or an empty frame for None;
\* add its codes to google_product_codes unless force_refresh
load_sheet_data(st, responses, sheet, force_refresh) ==
    IF session_key(sheet) \in DOMAIN st.ss /\ ~force_refresh THEN st
    ELSE LET f == fetch_google_sheet_data(st.cache, responses, sheet)
             sheet_data == f.result
         IN  IF sheet_data.isnone
             THEN [ss |-> Put(st.ss, session_key(sheet), EmptyFrame), cache |-> f.cache]
             ELSE LET stored == Put(st.ss, session_key(sheet), sheet_data.df) IN
                  IF "Product Code" \in Range(sheet_data.df.columns) /\ ~force_refresh
                  THEN [ss |-> Put(stored, "google_product_codes",
                                   stored["google_product_codes"]
                                       \cup product_codes(sheet_data.df)),
                        cache |-> f.cache]
                  ELSE [ss |-> stored, cache |-> f.cache]

RECURSIVE load_all_abort(_, _, _, _)
\* the loop over the feeds given up at the first feed whose fetch fails
load_all_abort(st, responses, sheets, force_refresh) ==
    IF sheets = <<>> THEN st
    ELSE LET loaded == load_sheet_data(st, responses, Head(sheets), force_refresh)
             fetched == session_key(Head(sheets)) \notin DOMAIN st.ss \/ force_refresh
         IN  IF fetched
                /\ fetch_google_sheet_data(st.cache, responses, Head(sheets)).result.isnone
             THEN loaded
             ELSE load_all_abort(loaded, responses, Tail(sheets), force_refresh)

RECURSIVE load_all(_, _, _, _)
\* for sheet_name, sheet_range in Config.SHEET_CONFIGS.items(): load_sheet_data
load_all(st, responses, sheets, force_refresh) ==
    IF sheets = <<>> THEN st
    ELSE load_all(load_sheet_data(st, responses, Head(sheets), force_refresh),
                  responses, Tail(sheets), force_refresh)

\* clear_google_sheets_data deleting the keys of the upload as well
clear_google_sheets_data_and_upload(ss) ==
    Del(ss, {"google_data_df_items", "google_data_shandong_items",
             "google_data_taiwan_glass", "google_data_lug_cap",
             "google_product_codes", "date_range", "reorder_data",
             "inventory_data"})

\* clear_google_sheets_data
clear_google_sheets_data(ss) ==
    Del(ss, {"google_data_df_items", "google_data_shandong_items",
             "google_data_taiwan_glass", "google_data_lug_cap",
             "google_product_codes"})

\* clear_all_session_state leaving google_product_codes in the session
clear_all_session_state_keep_codes(ss) ==
    Del(ss, {"google_data_df_items", "google_data_shandong_items",
             "google_data_taiwan_glass", "google_data_lug_cap",
             "date_range", "reorder_data", "excel_data", "inventory_data"})

\* clear_all_session_state
clear_all_session_state(ss) ==
    Del(ss, {"google_data_df_items", "google_data_shandong_items",
             "google_data_taiwan_glass", "google_data_lug_cap",
             "google_product_codes", "date_range", "reorder_data",
             "excel_data", "inventory_data"})

----------------------------------------------------------------------------
\* Handlers of the page

RECURSIVE tolist(_)
\* list(a_set): its elements in some order
tolist(S) ==
    IF S = {} THEN <<>>
    ELSE LET x == CHOOSE y \in S : TRUE IN <<x>> \o tolist(S \ {x})

\* handle_data_refresh without fetch_google_sheet_data.clear()
handle_data_refresh_cached(st, responses) ==
    LET cleared == [ss |-> clear_google_sheets_data(st.ss), cache |-> st.cache]
        loaded == load_all(cleared, responses, SHEET_CONFIGS, TRUE)
        codes == UNION {product_codes(loaded.ss[session_key(SHEET_CONFIGS[i])]) :
                          i \in {j \in 1..Len(SHEET_CONFIGS) :
                                    session_key(SHEET_CONFIGS[j]) \in DOMAIN loaded.ss}}
        rebuilt == Put(loaded.ss, "google_product_codes", codes)
    IN  [ss |-> IF "reorder_data" \in DOMAIN rebuilt /\ rebuilt["reorder_data"] # <<>>
                THEN Put(rebuilt, "reorder_data_with_status",
                         add_order_status(tolist(codes), rebuilt["reorder_data"]))
                ELSE rebuilt,
         cache |-> loaded.cache]

\* handle_data_refresh stamping the reorder rows before the code set is
\* rebuilt
handle_data_refresh_stamp_first(st, responses) ==
    LET cleared == [ss |-> clear_google_sheets_data(st.ss), cache |-> EmptyMap]
        loaded == load_all(cleared, responses, SHEET_CONFIGS, TRUE)
        codes == UNION {product_codes(loaded.ss[session_key(SHEET_CONFIGS[i])]) :
                          i \in {j \in 1..Len(SHEET_CONFIGS) :
                                    session_key(SHEET_CONFIGS[j]) \in DOMAIN loaded.ss}}
        rebuilt == Put(loaded.ss, "google_product_codes", codes)
    IN  [ss |-> IF "reorder_data" \in DOMAIN rebuilt /\ rebuilt["reorder_data"] # <<>>
                THEN Put(rebuilt, "reorder_data_with_status",
                         add_order_status(tolist(st.ss["google_product_codes"]),
                                          rebuilt["reorder_data"]))
                ELSE rebuilt,
         cache |-> loaded.cache]

\* handle_data_refresh up to st.rerun(), on st = [ss, cache]
handle_data_refresh(st, responses) ==
    LET cleared == [ss |-> clear_google_sheets_data(st.ss), cache |-> EmptyMap]
        loaded == load_all(cleared, responses, SHEET_CONFIGS, TRUE)
        codes == UNION {product_codes(loaded.ss[session_key(SHEET_CONFIGS[i])]) :
                          i \in {j \in 1..Len(SHEET_CONFIGS) :
                                    session_key(SHEET_CONFIGS[j]) \in DOMAIN loaded.ss}}
        rebuilt == Put(loaded.ss, "google_product_codes", codes)
    IN  [ss |-> IF "reorder_data" \in DOMAIN rebuilt /\ rebuilt["reorder_data"] # <<>>
                THEN Put(rebuilt, "reorder_data_with_status",
                         add_order_status(tolist(codes), rebuilt["reorder_data"]))
                ELSE rebuilt,
         cache |-> loaded.cache]

\* handle_force_cache_clear up to st.rerun()
handle_force_cache_clear(st) ==
    [ss |-> clear_all_session_state(st.ss), cache |-> EmptyMap]

\* what extract_inventory_data shows on the page
extract_messages(out) ==
    (IF out.missing_reported THEN {"missing_columns"} ELSE {})
    \cup (IF out.no_rows_warning THEN {"no_rows_warning"} ELSE {})
    \cup (IF out.error THEN {"processing_error"} ELSE {})
    \cup (IF out.negative_stock > 0 THEN {"negative_stock_warning"} ELSE {})

\* process_uploaded_file: nothing is stored when load_excel_data returns None
process_uploaded_file(ss, uploaded_file, file_info) ==
    LET raw_data == load_excel_data(uploaded_file) IN
    IF raw_data.isnone THEN [ss |-> ss, messages |-> raw_data.messages]
    ELSE LET out == extract_inventory_data(raw_data.df)
             s1 == Put(ss, "excel_file_info", file_info)
             s2 == Put(s1, "raw_excel_data", raw_data.df)
             s3 == Put(s2, "inventory_data", out.df)
             s4 == Put(s3, "date_range", extract_date_range(raw_data.df))
             s5 == Put(s4, "reorder_data", get_reorder_items(out.df))
         IN  [ss |-> s5,
              messages |-> raw_data.messages \cup extract_messages(out)
                               \cup {"processed"}]

\* handle_file_upload: process a file that is new, or whose result is gone
handle_file_upload(ss, widget) ==
    IF widget = {} THEN [ss |-> ss, messages |-> {}]
    ELSE LET uploaded_file == CHOOSE f \in widget : TRUE
             file_info == uploaded_file.info
             should_process ==
                 \/ "excel_file_info" \notin DOMAIN ss
                 \/ ss["excel_file_info"] # file_info
                 \/ "inventory_data" \notin DOMAIN ss
         IN  IF should_process THEN process_uploaded_file(ss, uploaded_file, file_info)
             ELSE [ss |-> ss, messages |-> {"using_previous"}]

NotShown == [rendered |-> FALSE, table |-> <<>>]

NoBefore == [ss |-> EmptyMap, cache |-> EmptyMap]

\* the session was just opened
NoHistory == [event |-> "open", after_refresh |-> FALSE]

\* render_reorder_table: the frame passed to st.dataframe
render_reorder_table(ss) ==
    IF "reorder_data" \in DOMAIN ss /\ ss["reorder_data"] # <<>>
    THEN [rendered |-> TRUE,
          table |-> IF "reorder_data_with_status" \in DOMAIN ss
                    THEN ss["reorder_data_with_status"]
                    ELSE add_order_status(tolist(ss["google_product_codes"]),
                                          ss["reorder_data"])]
    ELSE NotShown

\* render_analysis_results: restamp when there are reorder rows and the
\* code set is not empty, then render
render_analysis_results(ss) ==
    LET restamped ==
            IF /\ "reorder_data" \in DOMAIN ss
               /\ ss["reorder_data"] # <<>>
               /\ ss["google_product_codes"] # {}
            THEN Put(ss, "reorder_data_with_status",
                     add_order_status(tolist(ss["google_product_codes"]),
                                      ss["reorder_data"]))
            ELSE ss
    IN  [ss |-> restamped, shown |-> render_reorder_table(restamped)]

----------------------------------------------------------------------------
\* Inputs of the extraction run

\* a Product Code cell: missing, blank, a code, a code with a leading blank
CodeCells == {NaN, Str(<<" ">>), Str(<<"A">>), Str(<<" ", "A">>)}

\* a Unit Sold cell: missing, text, digits as text, a negative fraction
\* (-2.5), a cell read as infinity, the most negative machine integer
SoldCells == {NaN, Str(<<"A">>), Str(<<"7">>), Num(-5), Inf(1), Num(2 * IntMin)}

\* a Balance Stock cell: missing, 2, -1.5
StockCells == {NaN, Num(4), Num(-3)}

CellsOf(col) ==
    CASE col = "Unnamed: 0" -> {NaN}
      [] col = "Unnamed: 1" -> CodeCells
      [] col = "Unnamed: 40" -> SoldCells
      [] col = "Unnamed: 61" -> StockCells

\* the column layouts drawn: the first sheet column, then any of the three
\* required ones
ColumnLayouts ==
    {Mask(<<"Unnamed: 0">> \o required_cols, [i \in 1..4 |-> i = 1 \/ m[i - 1]])
        : m \in [1..3 -> BOOLEAN]}

RowsOver(columns) ==
    {r \in [Range(columns) -> CodeCells \cup SoldCells \cup StockCells] :
        \A c \in Range(columns) : r[c] \in CellsOf(c)}

RawDatasets(columns, n) ==
    {[columns |-> columns, rows |-> rs] : rs \in [1..n -> RowsOver(columns)]}

\* the records extract_inventory_data produces from the cells above
CanonicalRecords ==
    [ProductCode : {Str(<<"A">>), Str(<<" ", "A">>)},
     UnitSold : {0, 2, 7},
     BalanceStock : {-1, 0, 2}]

CanonicalFrames == UNION {[1..n -> CanonicalRecords] : n \in 0..MaxRows}

\* product code lists: feed cells, repetitions included
FeedCodes == {<<"A">>, <<"B">>, <<>>}

ProductLists == UNION {[1..n -> FeedCodes] : n \in 0..2}

----------------------------------------------------------------------------
\* Specification SpecExtract: extract_inventory_data applied to a raw dataset

NoOutcome == Outcome(EmptyCanonical)

\* no request was made, nothing was fetched
NoResponse == [status |-> "error", values |-> <<>>]

NoFetch == [isnone |-> TRUE, df |-> EmptyFrame]

\* no session runs beside a pure-function run
NoSession ==
    /\ session_state = EmptyMap
    /\ fetch_cache = EmptyMap
    /\ remote = EmptyMap
    /\ uploader = {}
    /\ click = "none"
    /\ pc = "idle"
    /\ messages = {}
    /\ shown = NotShown
    /\ before = NoBefore
    /\ history = NoHistory

InitExtract ==
    /\ NoSession
    /\ \E cs \in ColumnLayouts, n \in 0..MaxRows : data \in RawDatasets(cs, n)
    /\ extracted = NoOutcome
    /\ again = NoOutcome
    /\ step = "input"
    /\ inventory = <<>>
    /\ reorder = <<>>
    /\ product_list = <<>>
    /\ stamped = <<>>
    /\ date_range = <<>>
    /\ csv_data = <<>>
    /\ answer = NoResponse
    /\ fetch_result = NoFetch
    /\ load_messages = {}
    /\ top_rows = <<>>

\* extract_inventory_data dropping the empty rows of the caller's frame in
\* place
data_after_extract_inplace(df) ==
    IF empty(df) \/ ~validate_excel_structure(df).valid THEN df
    ELSE [df EXCEPT !.rows = dropna_all(df.rows)]

\* the caller's frame after extract_inventory_data(data): the function
\* works on data[required_cols].copy() and rebinds new_data at every step, so
\* the frame passed in is not written
data_after_extract(df) == df

Extract ==
    /\ step = "input"
    /\ extracted' = extract_inventory_data(data)
    /\ data' = data_after_extract(data)
    /\ step' = "extract_inventory_data"
    /\ UNCHANGED <<again, inventory, reorder, product_list, stamped,
                   date_range, csv_data, answer, fetch_result,
                   load_messages, top_rows, session_vars>>

\* extract_inventory_data called once more on the same frame
ExtractAgain ==
    /\ step = "extract_inventory_data"
    /\ again' = extract_inventory_data(data)
    /\ data' = data_after_extract(data)
    /\ step' = "extract_inventory_data_again"
    /\ UNCHANGED <<extracted, inventory, reorder, product_list, stamped,
                   date_range, csv_data, answer, fetch_result,
                   load_messages, top_rows, session_vars>>

NextExtract == Extract \/ ExtractAgain

SpecExtract == InitExtract /\ [][NextExtract]_vars

----------------------------------------------------------------------------
\* Specification SpecReorder: get_reorder_items applied to a canonical frame,
\* then add_order_status applied to its result

InitReorder ==
    /\ NoSession
    /\ inventory \in CanonicalFrames
    /\ reorder = <<>>
    /\ product_list = <<>>
    /\ stamped = <<>>
    /\ date_range = <<>>
    /\ csv_data = <<>>
    /\ answer = NoResponse
    /\ fetch_result = NoFetch
    /\ load_messages = {}
    /\ top_rows = <<>>
    /\ step = "input"
    /\ data = [columns |-> <<>>, rows |-> <<>>]
    /\ extracted = NoOutcome
    /\ again = NoOutcome

GetReorderItems ==
    /\ step = "input"
    /\ reorder' = get_reorder_items(inventory)
    /\ step' = "get_reorder_items"
    /\ UNCHANGED <<data, extracted, again, inventory, product_list, stamped,
                   date_range, csv_data, answer, fetch_result,
                   load_messages, top_rows, session_vars>>

AddOrderStatus ==
    /\ step = "get_reorder_items"
    /\ \E list \in ProductLists :
          /\ product_list' = list
          /\ stamped' = add_order_status(list, reorder)
    /\ step' = "add_order_status"
    /\ UNCHANGED <<data, extracted, again, inventory, reorder, date_range,
                   csv_data, answer, fetch_result,
                   load_messages, top_rows, session_vars>>

\* by how much the Balance Stock of a record is lowered
StockDrops == {1, 2, 5}

\* get_reorder_items applied to the same frame with one record's Balance
\* Stock lowered
LowerStock ==
    /\ step = "get_reorder_items"
    /\ \E i \in 1..Len(inventory), d \in StockDrops :
          /\ inventory[i].BalanceStock - d >= IntMin
          /\ inventory' = [inventory EXCEPT ![i].BalanceStock = @ - d]
    /\ reorder' = get_reorder_items(inventory')
    /\ step' = "get_reorder_items_lowered"
    /\ UNCHANGED <<data, extracted, again, product_list, stamped, date_range,
                   csv_data, answer, fetch_result,
                   load_messages, top_rows, session_vars>>

NextReorder == GetReorderItems \/ AddOrderStatus \/ LowerStock

SpecReorder == InitReorder /\ [][NextReorder]_vars

----------------------------------------------------------------------------
\* Specification SpecDates: extract_date_range applied to a raw dataset

\* most pieces the text of the inspected cell is put together from
MaxPieces == 3

\* pieces of cell text: 1/5/24, 31/05/2024, 2024-05-01, a blank, a digit and
\* the two separators
Pieces ==
    {<<"1", "/", "5", "/", "2", "4">>,
     <<"3", "1", "/", "0", "5", "/", "2", "0", "2", "4">>,
     <<"2", "0", "2", "4", "-", "0", "5", "-", "0", "1">>,
     <<" ">>, <<"9">>, <<"/">>, <<"-">>}

RECURSIVE concat(_)
concat(pieces) == IF pieces = <<>> THEN <<>> ELSE Head(pieces) \o concat(Tail(pieces))

\* a first-column cell of the last row: missing, or a text of pieces
LastCells(n) == {Str(concat(ps)) : ps \in [1..n -> Pieces]}

\* a row of the two-column dataset: its first cell and a second cell that
\* holds a date
DateRow(first) ==
    [c \in {"Unnamed: 0", "Unnamed: 1"} |->
        IF c = "Unnamed: 0" THEN first
        ELSE Str(<<"2", "/", "2", "/", "2", "2">>)]

\* the rows above the last one: none, one with a date, one without a text
RowsAbove ==
    {<<>>, <<DateRow(Str(<<"7", "/", "7", "/", "7", "7">>))>>, <<DateRow(NaN)>>}

InitDates ==
    /\ NoSession
    /\ \/ data = [columns |-> <<"Unnamed: 0", "Unnamed: 1">>, rows |-> <<>>]
       \/ \E above \in RowsAbove, n \in 0..MaxPieces :
              \E first \in LastCells(n) \cup {NaN} :
                  data = [columns |-> <<"Unnamed: 0", "Unnamed: 1">>,
                          rows |-> Append(above, DateRow(first))]
    /\ extracted = NoOutcome
    /\ again = NoOutcome
    /\ step = "input"
    /\ inventory = <<>>
    /\ reorder = <<>>
    /\ product_list = <<>>
    /\ stamped = <<>>
    /\ date_range = <<>>
    /\ csv_data = <<>>
    /\ answer = NoResponse
    /\ fetch_result = NoFetch
    /\ load_messages = {}
    /\ top_rows = <<>>

ExtractDateRange ==
    /\ step = "input"
    /\ date_range' = extract_date_range(data)
    /\ step' = "extract_date_range"
    /\ UNCHANGED <<data, extracted, again, inventory, reorder, product_list,
                   stamped, csv_data, answer, fetch_result,
                   load_messages, top_rows, session_vars>>

NextDates == ExtractDateRange

SpecDates == InitDates /\ [][NextDates]_vars

----------------------------------------------------------------------------
\* Specification SpecExport: the CSV export of a displayed reorder table
\* (render_export_options: create_export_data, then generate_csv_download)

\* product codes of the exported records: A, 007, NA, "A,B", " A" and A"
ExportCodes ==
    {<<"A">>, <<"0", "0", "7">>, <<"N", "A">>, <<"A", ",", "B">>, <<" ", "A">>, <<"A", "\"">>}

ExportRecords ==
    [ProductCode : {Str(t) : t \in ExportCodes},
     UnitSold : {12},
     BalanceStock : {-3, 4},
     Ordered : {"Ordered", "Pending"}]

\* the clock reading, in the format %Y-%m-%d %H:%M:%S
Now == "2024-05-01 10:00:00"

InitExport ==
    /\ NoSession
    /\ \E n \in 1..MaxRows : stamped \in [1..n -> ExportRecords]
    /\ data = EmptyFrame
    /\ extracted = NoOutcome
    /\ again = NoOutcome
    /\ step = "input"
    /\ inventory = <<>>
    /\ reorder = <<>>
    /\ product_list = <<>>
    /\ date_range = <<>>
    /\ csv_data = <<>>
    /\ answer = NoResponse
    /\ fetch_result = NoFetch
    /\ load_messages = {}
    /\ top_rows = <<>>

\* render_export_options: the CSV text behind the download button
GenerateCsvDownload ==
    /\ step = "input"
    /\ stamped # <<>>
    /\ csv_data' = generate_csv_download(
                       create_export_data(stamped, EXPORT_INCLUDE_TIMESTAMP, Now))
    /\ step' = "generate_csv_download"
    /\ UNCHANGED <<data, extracted, again, inventory, reorder, product_list,
                   stamped, date_range, answer, fetch_result,
                   load_messages, top_rows, session_vars>>

NextExport == GenerateCsvDownload

SpecExport == InitExport /\ [][NextExport]_vars

----------------------------------------------------------------------------
\* Specification SpecFetch: the body of fetch_google_sheet_data applied to
\* what the remote request answers

\* most cells in a row of the remote's answer
MaxCells == 3

\* a cell of the remote sheet: '' or a text
FeedCells == {<<>>, <<"A">>}

\* a data row of the answer: the remote leaves out trailing empty cells, so
\* a row is as long as its last filled cell, an empty row has no cell, and a
\* row may reach past the header
FeedRows == UNION {[1..n -> FeedCells] : n \in 0..MaxCells}

\* the header row of the answer: no cell, one column, two columns
FeedHeaders == {<<>>, <<"Product Code">>, <<"Product Code", "Qty">>}

InitFetch ==
    /\ NoSession
    /\ \/ answer = [status |-> "error", values |-> <<>>]
       \/ answer = [status |-> "ok", values |-> <<>>]
       \/ \E headers \in FeedHeaders, n \in 0..MaxRows :
              \E data_rows \in [1..n -> FeedRows] :
                  answer = [status |-> "ok", values |-> <<headers>> \o data_rows]
    /\ fetch_result = NoFetch
    /\ load_messages = {}
    /\ top_rows = <<>>
    /\ data = EmptyFrame
    /\ extracted = NoOutcome
    /\ again = NoOutcome
    /\ step = "input"
    /\ inventory = <<>>
    /\ reorder = <<>>
    /\ product_list = <<>>
    /\ stamped = <<>>
    /\ date_range = <<>>
    /\ csv_data = <<>>

FetchGoogleSheetData ==
    /\ step = "input"
    /\ fetch_result' = fetch_remote(answer)
    /\ step' = "fetch_google_sheet_data"
    /\ UNCHANGED <<data, extracted, again, inventory, reorder, product_list,
                   stamped, date_range, csv_data, answer, load_messages, top_rows,
                   session_vars>>

NextFetch == FetchGoogleSheetData

SpecFetch == InitFetch /\ [][NextFetch]_vars

----------------------------------------------------------------------------
\* Specification Spec: one browser session.  Every user action starts a
\* script run of main(): the sidebar (initialize_session_state, the feed
\* loads, the clicked button's handler, which ends in st.rerun()), then
\* handle_file_upload, then render_analysis_results.

AllColumns == <<"Unnamed: 0">> \o required_cols

Row(code, sold, stock) ==
    [c \in Range(AllColumns) |->
        CASE c = "Unnamed: 0" -> NaN
          [] c = "Unnamed: 1" -> code
          [] c = "Unnamed: 40" -> sold
          [] c = "Unnamed: 61" -> stock]

\* two workbooks with one reorder row each: A sold 7 / stock 2, B sold 2 / stock 2
WorkbookA == [columns |-> AllColumns,
              rows |-> <<Row(Str(<<"A">>), Str(<<"7">>), Num(4))>>]

WorkbookB == [columns |-> AllColumns,
              rows |-> <<Row(Str(<<"B">>), Num(-5), Num(4))>>]

InfoOne == [name |-> "stock.xlsx", size |-> "9 KB", type |-> "xlsx"]

InfoTwo == [name |-> "stock2.xlsx", size |-> "9 KB", type |-> "xlsx"]

\* the files a user may put into the uploader: two workbooks, a workbook
\* with the name, size and type of the first and other cells, and a file
\* pd.read_excel cannot parse
Files ==
    {[info |-> InfoOne, parses |-> TRUE, df |-> WorkbookA],
     [info |-> InfoTwo, parses |-> TRUE, df |-> WorkbookB],
     [info |-> InfoOne, parses |-> TRUE, df |-> WorkbookB],
     [info |-> InfoTwo, parses |-> FALSE, df |-> EmptyFrame]}

\* what a feed's request may answer: a failure (request error or missing
\* secret), or a sheet of values whose first row is the header, with or
\* without a Product Code column
Responses ==
    {[status |-> "error", values |-> <<>>],
     [status |-> "ok", values |-> <<(<<"Product Code", "Qty">>), <<(<<"A">>)>>>>],
     [status |-> "ok", values |-> <<(<<"Product Code", "Qty">>), <<(<<"B">>), (<<"1">>)>>>>],
     [status |-> "ok", values |-> <<(<<"Item">>), <<(<<"A">>)>>>>]}

Feeds == Range(SHEET_CONFIGS)

InitSession ==
    /\ session_state = EmptyMap
    /\ fetch_cache = EmptyMap
    /\ remote \in [Feeds -> Responses]
    /\ uploader = {}
    /\ click = "none"
    /\ pc = "sidebar"
    /\ messages = {}
    /\ shown = NotShown
    /\ before = NoBefore
    /\ history = NoHistory

Init ==
    /\ InitSession
    /\ data = EmptyFrame
    /\ extracted = NoOutcome
    /\ again = NoOutcome
    /\ step = "input"
    /\ inventory = <<>>
    /\ reorder = <<>>
    /\ product_list = <<>>
    /\ stamped = <<>>
    /\ date_range = <<>>
    /\ csv_data = <<>>
    /\ answer = NoResponse
    /\ fetch_result = NoFetch
    /\ load_messages = {}
    /\ top_rows = <<>>

\* a user action starts a script run: the page is drawn afresh
StartRun(button, event) ==
    /\ pc = "idle"
    /\ pc' = "sidebar"
    /\ click' = button
    /\ messages' = {}
    /\ shown' = NotShown
    /\ history' = [event |-> event, after_refresh |-> history.event = "refresh"]

\* the user puts a file into the uploader
UserUpload ==
    /\ StartRun("none", "upload")
    /\ \E f \in Files : uploader' = {f}
    /\ UNCHANGED <<session_state, fetch_cache, remote, before, pure_vars>>

\* the user removes the file from the uploader
UserRemoveFile ==
    /\ StartRun("none", "remove")
    /\ uploader # {}
    /\ uploader' = {}
    /\ UNCHANGED <<session_state, fetch_cache, remote, before, pure_vars>>

\* the user clicks "Refresh Data" or "Clear Cache"
UserClick ==
    /\ \E button \in {"refresh", "clear"} : StartRun(button, button)
    /\ UNCHANGED <<session_state, fetch_cache, remote, uploader, before, pure_vars>>

\* the user clicks a download button of the rendered table: a plain rerun
UserDownload ==
    /\ shown.rendered
    /\ StartRun("none", "download")
    /\ UNCHANGED <<session_state, fetch_cache, remote, uploader, before, pure_vars>>

\* the remote sheet of a feed changes, or its request starts or stops failing
RemoteChange ==
    /\ pc = "idle"
    /\ \E sheet \in Feeds, response \in Responses :
          /\ remote[sheet] # response
          /\ remote' = [remote EXCEPT ![sheet] = response]
    /\ history' = [event |-> "remote_change", after_refresh |-> FALSE]
    /\ UNCHANGED <<session_state, fetch_cache, uploader, click, pc, messages,
                   shown, before, pure_vars>>

\* ttl=300: a cached fetch result expires
CacheExpire ==
    /\ pc = "idle"
    /\ \E sheet \in DOMAIN fetch_cache : fetch_cache' = Del(fetch_cache, {sheet})
    /\ UNCHANGED <<session_state, remote, uploader, click, pc, messages, shown,
                   before, history, pure_vars>>

\* main() up to the buttons: initialize_session_state, then render_sidebar
\* loads every feed that is not in the session
RenderSidebar ==
    /\ pc = "sidebar"
    /\ LET st == load_all([ss |-> initialize_session_state(session_state),
                           cache |-> fetch_cache],
                          remote, SHEET_CONFIGS, FALSE)
       IN  /\ session_state' = st.ss
           /\ fetch_cache' = st.cache
    /\ pc' = IF click = "none" THEN "upload" ELSE "buttons"
    /\ UNCHANGED <<remote, uploader, click, messages, shown, before, history, pure_vars>>

\* "Refresh Data" was clicked: handle_data_refresh, ending in st.rerun()
HandleDataRefresh ==
    /\ pc = "buttons"
    /\ click = "refresh"
    /\ LET st == handle_data_refresh([ss |-> session_state, cache |-> fetch_cache],
                                     remote)
       IN  /\ session_state' = st.ss
           /\ fetch_cache' = st.cache
    /\ messages' = messages \cup {"refreshed"}
    /\ pc' = "rerun"
    /\ before' = [ss |-> session_state, cache |-> fetch_cache]
    /\ UNCHANGED <<remote, uploader, click, shown, history, pure_vars>>

\* "Clear Cache" was clicked: handle_force_cache_clear, ending in st.rerun()
HandleForceCacheClear ==
    /\ pc = "buttons"
    /\ click = "clear"
    /\ LET st == handle_force_cache_clear([ss |-> session_state, cache |-> fetch_cache])
       IN  /\ session_state' = st.ss
           /\ fetch_cache' = st.cache
    /\ messages' = messages \cup {"cleared"}
    /\ pc' = "rerun"
    /\ before' = [ss |-> session_state, cache |-> fetch_cache]
    /\ UNCHANGED <<remote, uploader, click, shown, history, pure_vars>>

\* st.rerun(): the script starts over, no button clicked
Rerun ==
    /\ pc = "rerun"
    /\ pc' = "sidebar"
    /\ click' = "none"
    /\ messages' = {}
    /\ shown' = NotShown
    /\ before' = NoBefore
    /\ UNCHANGED <<session_state, fetch_cache, remote, uploader,
                   history, pure_vars>>

\* main(): handle_file_upload
HandleFileUpload ==
    /\ pc = "upload"
    /\ LET r == handle_file_upload(session_state, uploader)
       IN  /\ session_state' = r.ss
           /\ messages' = messages \cup r.messages
    /\ pc' = "render"
    /\ UNCHANGED <<fetch_cache, remote, uploader, click, shown, before, history, pure_vars>>

\* main(): render_analysis_results when a file is in the uploader or the
\* session holds a non-empty inventory
RenderAnalysisResults ==
    /\ pc = "render"
    /\ IF \/ uploader # {}
          \/ /\ "inventory_data" \in DOMAIN session_state
             /\ session_state["inventory_data"] # <<>>
       THEN LET r == render_analysis_results(session_state)
            IN  /\ session_state' = r.ss
                /\ shown' = r.shown
       ELSE UNCHANGED <<session_state, shown>>
    /\ pc' = "idle"
    /\ UNCHANGED <<fetch_cache, remote, uploader, click, messages, before,
                   history, pure_vars>>

Next ==
    \/ UserUpload
    \/ UserRemoveFile
    \/ UserClick
    \/ UserDownload
    \/ RemoteChange
    \/ CacheExpire
    \/ RenderSidebar
    \/ HandleDataRefresh
    \/ HandleForceCacheClear
    \/ Rerun
    \/ HandleFileUpload
    \/ RenderAnalysisResults

Spec == Init /\ [][Next]_vars

----------------------------------------------------------------------------
\* Specification SpecLoad: process_uploaded_file's load_excel_data and
\* extract_inventory_data applied to a workbook, a small one or one of about
\* MAX_ROWS rows

\* how many rows a large workbook has
LoadSizes == {MAX_ROWS, MAX_ROWS + 1}

\* where a row of a large workbook that is not a plain record may stand:
\* the first row, the first row past the cap
OddPlaces == {1, MAX_ROWS + 1}

\* a plain record, an empty row, a row without a product code
LoadRow(kind) ==
    [c \in Range(required_cols) |->
        CASE kind = "record" ->
                 (CASE c = "Unnamed: 1" -> Str(<<"A">>)
                    [] c = "Unnamed: 40" -> Num(14)
                    [] c = "Unnamed: 61" -> Num(4))
          [] kind = "empty" -> NaN
          [] kind = "no_code" -> IF c = "Unnamed: 1" THEN NaN ELSE Num(4)]

InitLoad ==
    /\ NoSession
    /\ \/ \E cs \in ColumnLayouts, n \in 0..MaxRows : data \in RawDatasets(cs, n)
       \/ \E n \in LoadSizes, kinds \in [OddPlaces -> {"record", "empty", "no_code"}] :
              data = [columns |-> required_cols,
                      rows |-> [i \in 1..n |->
                                  LoadRow(IF i \in OddPlaces THEN kinds[i] ELSE "record")]]
    /\ extracted = NoOutcome
    /\ again = NoOutcome
    /\ step = "input"
    /\ inventory = <<>>
    /\ reorder = <<>>
    /\ product_list = <<>>
    /\ stamped = <<>>
    /\ date_range = <<>>
    /\ csv_data = <<>>
    /\ answer = NoResponse
    /\ fetch_result = NoFetch
    /\ load_messages = {}
    /\ top_rows = <<>>

\* process_uploaded_file: raw_data = load_excel_data(uploaded_file), then,
\* unless it is None, inventory_data = extract_inventory_data(raw_data)
ProcessUploadedFile ==
    /\ step = "input"
    /\ LET raw_data == load_excel_data([parses |-> TRUE, df |-> data])
       IN  /\ load_messages' = raw_data.messages
           /\ extracted' = IF raw_data.isnone THEN NoOutcome
                           ELSE extract_inventory_data(raw_data.df)
    /\ step' = "process_uploaded_file"
    /\ UNCHANGED <<data, again, inventory, reorder, product_list, stamped,
                   date_range, csv_data, answer, fetch_result, top_rows,
                   session_vars>>

NextLoad == ProcessUploadedFile

SpecLoad == InitLoad /\ [][NextLoad]_vars

----------------------------------------------------------------------------
\* Specification SpecTop: the top-N selectors of src/stock-app.py applied to
\* a canonical frame

\* rows without the first occurrence of the record r
without(rows, r) ==
    LET at == CHOOSE i \in 1..Len(rows) :
                  rows[i] = r /\ \A j \in 1..(i - 1) : rows[j] # r
    IN  [i \in 1..(Len(rows) - 1) |-> IF i < at THEN rows[i] ELSE rows[i + 1]]

\* the orderings of rows by falling Unit Sold, each after the rows in sorted
RECURSIVE sorted_after(_, _)
sorted_after(sorted, rows) ==
    IF rows = <<>> THEN {sorted}
    ELSE LET largest == CHOOSE m \in {rows[i].UnitSold : i \in 1..Len(rows)} :
                            \A i \in 1..Len(rows) : rows[i].UnitSold <= m
             first_rows == {rows[i] : i \in {j \in 1..Len(rows) :
                                                 rows[j].UnitSold = largest}}
         IN  UNION {sorted_after(Append(sorted, r), without(rows, r))
                      : r \in first_rows}

\* df.sort_values(by=['Unit Sold'], ascending=False): the rows by falling
\* Unit Sold.  kind is left at its default 'quicksort', which is not a stable
\* sort: rows of equal Unit Sold come out in an order the sort routine of the
\* installed numpy decides, so the result is any one of the orderings by
\* falling Unit Sold.
sort_values(rows) == sorted_after(<<>>, rows)

\* extract_top50: sort_values(...).head(50).reset_index(drop=True)
extract_top50(df) == {head(sorted, 50) : sorted \in sort_values(df)}

\* extract_top200: sort_values(...).head(200).reset_index(drop=True)
extract_top200(df) == {head(sorted, 200) : sorted \in sort_values(df)}

\* how many rows a frame longer than extract_top50's N has
TopSizes == {51}

\* the record of a long frame that differs from the others: it sold less,
\* as much, or more
OddRecords == {r \in CanonicalRecords : r.ProductCode = Str(<<" ", "A">>) /\ r.BalanceStock = 0}

\* a frame of n equal records but for the one at place k
LongFrame(n, k, r) ==
    [i \in 1..n |-> IF i = k THEN r
                    ELSE [ProductCode |-> Str(<<"A">>), UnitSold |-> 2,
                          BalanceStock |-> 0]]

InitTop ==
    /\ NoSession
    /\ \/ inventory \in CanonicalFrames
       \/ \E n \in TopSizes, k \in {1, 51}, r \in OddRecords :
              inventory = LongFrame(n, k, r)
    /\ top_rows = <<>>
    /\ step = "input"
    /\ data = EmptyFrame
    /\ extracted = NoOutcome
    /\ again = NoOutcome
    /\ reorder = <<>>
    /\ product_list = <<>>
    /\ stamped = <<>>
    /\ date_range = <<>>
    /\ csv_data = <<>>
    /\ answer = NoResponse
    /\ fetch_result = NoFetch
    /\ load_messages = {}

\* the "Top50 Hot Selling Products" button
ExtractTop50 ==
    /\ step = "input"
    /\ top_rows' \in extract_top50(inventory)
    /\ step' = "extract_top50"
    /\ UNCHANGED <<data, extracted, again, inventory, reorder, product_list,
                   stamped, date_range, csv_data, answer, fetch_result,
                   load_messages, session_vars>>

\* the "Top200 Hot Selling Products" button
ExtractTop200 ==
    /\ step = "input"
    /\ top_rows' \in extract_top200(inventory)
    /\ step' = "extract_top200"
    /\ UNCHANGED <<data, extracted, again, inventory, reorder, product_list,
                   stamped, date_range, csv_data, answer, fetch_result,
                   load_messages, session_vars>>

NextTop == ExtractTop50 \/ ExtractTop200

SpecTop == InitTop /\ [][NextTop]_vars

----------------------------------------------------------------------------
\* Claims about extract_inventory_data (SpecExtract)

Extracted == step \in {"extract_inventory_data", "extract_inventory_data_again"}

\* the required columns the dataset does not have
AbsentRequired(df) == Range(required_cols) \ Range(df.columns)

HasRequired(df) == AbsentRequired(df) = {}

\* the report names exactly the columns of the set, each once
ReportsExactly(out, cols) ==
    /\ out.missing_reported
    /\ Range(out.missing) = cols
    /\ Len(out.missing) = Cardinality(cols)

IntReading(c) ==
    CASE c.k = "num" -> trunc(c.h)
      [] c.k = "str" /\ to_numeric(c).k = "num" -> trunc(to_numeric(c).h)
      [] OTHER -> 0

Magnitude(n) == IF n < 0 THEN -n ELSE n

\* the row has a product code: present and not blank
Coded(row) ==
    /\ row["Unnamed: 1"].k # "nan"
    /\ ~(row["Unnamed: 1"].k = "str" /\ strip(row["Unnamed: 1"].s) = <<>>)

RECURSIVE ExpectedRecords(_)
\* one record per coded raw row, in row order
ExpectedRecords(rows) ==
    IF rows = <<>> THEN <<>>
    ELSE (IF Coded(Head(rows))
          THEN <<[ProductCode |-> Head(rows)["Unnamed: 1"],
                  UnitSold |-> Magnitude(IntReading(Head(rows)["Unnamed: 40"])),
                  BalanceStock |-> IntReading(Head(rows)["Unnamed: 61"])]>>
          ELSE <<>>) \o ExpectedRecords(Tail(rows))

\* C2, as stated: with the three required columns present the result is, in
\* row order and without merging, one record {code, |int(sold)|, int(stock)}
\* per raw row that has a product code, and nothing else.
C2_AsStated ==
    (Extracted /\ HasRequired(data)) => extracted.df = ExpectedRecords(data.rows)

\* C3, as stated: with the three required columns present, whatever a
\* sold/stock cell holds, every row that has a product code yields a record
\* and no error is surfaced.
C3_AsStated ==
    (Extracted /\ HasRequired(data)) =>
        /\ ~extracted.error
        /\ Len(extracted.df) = Len(ExpectedRecords(data.rows))

\* C4, as stated: every record of the canonical result has UnitSold >= 0.
C4_AsStated ==
    Extracted => \A i \in 1..Len(extracted.df) : extracted.df[i].UnitSold >= 0

C20_AsStated ==
    Extracted =>
        \A i \in 1..Len(extracted.df) :
            /\ extracted.df[i].ProductCode.k = "str"
            /\ extracted.df[i].ProductCode.s # <<>>
            /\ strip(extracted.df[i].ProductCode.s) = extracted.df[i].ProductCode.s

----------------------------------------------------------------------------
\* Claims about get_reorder_items and add_order_status (SpecReorder)

Qualifies(r) == r.UnitSold >= r.BalanceStock

\* the k-th row index, ascending, of the qualifying rows of a frame
KthQualifying(frame, k) ==
    CHOOSE i \in 1..Len(frame) :
        /\ Qualifies(frame[i])
        /\ Cardinality({j \in 1..(i - 1) : Qualifies(frame[j])}) = k - 1

\* C5: get_reorder_items returns exactly the input records with
\* UnitSold >= BalanceStock, in input order; an empty input gives an empty
\* result.
C5_ReorderSelection ==
    (step \in {"get_reorder_items", "add_order_status"}) =>
        /\ Len(reorder) = Cardinality({i \in 1..Len(inventory) : Qualifies(inventory[i])})
        /\ \A k \in 1..Len(reorder) : reorder[k] = inventory[KthQualifying(inventory, k)]
        /\ inventory = <<>> => reorder = <<>>

C5_Witness ==
    /\ step = "get_reorder_items"
    /\ Len(inventory) = 2
    /\ inventory[1].UnitSold < inventory[1].BalanceStock
    /\ inventory[2].UnitSold = inventory[2].BalanceStock
    /\ reorder = <<inventory[2]>>

\* C6: add_order_status stamps a record Ordered exactly when its product
\* code is one of the listed codes, however often it is listed, and Pending
\* otherwise; the records themselves are kept.
C6_OrderStatus ==
    (step = "add_order_status") =>
        /\ Len(stamped) = Len(reorder)
        /\ \A i \in 1..Len(stamped) :
              /\ stamped[i].ProductCode = reorder[i].ProductCode
              /\ stamped[i].UnitSold = reorder[i].UnitSold
              /\ stamped[i].BalanceStock = reorder[i].BalanceStock
              /\ stamped[i].Ordered \in {"Ordered", "Pending"}
              /\ stamped[i].Ordered = "Ordered" <=>
                    \E j \in 1..Len(product_list) :
                        Str(product_list[j]) = reorder[i].ProductCode

\* C13: a record that get_reorder_items selects is still selected when its
\* Balance Stock is lowered and its Unit Sold kept.
C13_ReorderMonotonic ==
    [][LowerStock =>
          \A i \in 1..Len(inventory) :
              (/\ inventory'[i] # inventory[i]
               /\ inventory[i] \in Range(reorder)) => inventory'[i] \in Range(reorder')]_vars

\* a selected record (sold = stock) was lowered and is selected; an
\* excluded record beside it stays excluded
C13_Witness ==
    /\ step = "get_reorder_items_lowered"
    /\ Len(inventory) = 2
    /\ inventory[1].UnitSold = 2
    /\ inventory[1].BalanceStock = 1
    /\ inventory[2].UnitSold < inventory[2].BalanceStock
    /\ reorder = <<inventory[1]>>

C6_Witness ==
    /\ step = "add_order_status"
    /\ Len(stamped) = 2
    /\ product_list = <<(<<"A">>), (<<"A">>)>>
    /\ stamped[1].Ordered = "Ordered"
    /\ stamped[2].Ordered = "Pending"

----------------------------------------------------------------------------
\* Claims about the session (Spec)

Present(key) == key \in DOMAIN session_state

\* the frame stamped against a set of codes: Ordered exactly for the records
\* whose product code is in the set
StampedAgainst(frame, codes) ==
    [i \in 1..Len(frame) |->
        [ProductCode |-> frame[i].ProductCode,
         UnitSold |-> frame[i].UnitSold,
         BalanceStock |-> frame[i].BalanceStock,
         Ordered |-> IF \E c \in codes : Str(c) = frame[i].ProductCode
                     THEN "Ordered" ELSE "Pending"]]

\* C7, as stated: whenever the reorder table is rendered, the table shown is
\* the current reorder_data stamped against the current union of feed
\* codes.
C7_AsStated ==
    shown.rendered =>
        shown.table = StampedAgainst(session_state["reorder_data"],
                                     session_state["google_product_codes"])

RefreshDone == pc = "rerun" /\ click = "refresh"

ClearDone == pc = "rerun" /\ click = "clear"

\* the Product Code values a feed's remote sheet holds: the cell under the
\* first "Product Code" header of every data row, the empty string where
\* the row ends before that column; nothing when the request fails
RemoteCodes(response) ==
    IF response.status # "ok" \/ response.values = <<>> THEN {}
    ELSE LET header == response.values[1]
             at == {j \in 1..Len(header) : header[j] = "Product Code"}
         IN  IF at = {} THEN {}
             ELSE LET col == CHOOSE j \in at : \A m \in at : j <= m
                  IN  {IF col <= Len(response.values[r]) THEN response.values[r][col]
                       ELSE <<>> : r \in 2..Len(response.values)}

RemoteUnion == UNION {RemoteCodes(remote[sheet]) : sheet \in Feeds}

\* C8: when the refresh action completes, the product-code union is exactly
\* the union of the Product Code values the remote feeds hold then, whatever
\* the cache held; a code of the old union that no fresh feed holds is gone.
C8_RefreshRebuildsUnion ==
    RefreshDone =>
        /\ session_state["google_product_codes"] = RemoteUnion
        /\ \A c \in before.ss["google_product_codes"] :
              c \notin RemoteUnion => c \notin session_state["google_product_codes"]

\* a refresh that found an unexpired cached result differing from the
\* remote, and dropped a code of the old union
C8_Witness ==
    /\ RefreshDone
    /\ \E sheet \in DOMAIN before.cache :
          before.cache[sheet] # fetch_remote(remote[sheet])
    /\ \E c \in before.ss["google_product_codes"] :
          c \notin session_state["google_product_codes"]
    /\ session_state["google_product_codes"] # {}

\* C9, as stated: after the full-clear action the session holds no feed
\* table, no union, no raw upload, no inventory_data, no reorder_data, no
\* status-stamped table, no date range and no processed-file marker.
C9_AsStated ==
    ClearDone =>
        \A key \in {"google_data_df_items", "google_data_shandong_items",
                     "google_product_codes", "raw_excel_data", "inventory_data",
                     "reorder_data", "reorder_data_with_status", "date_range",
                     "excel_file_info"} : ~Present(key)

\* C10, as stated: when the uploaded file cannot be parsed, the upload step
\* ends with a diagnostic and the session's inventory result and reorder
\* set are empty, not those of an earlier file.
C10_AsStated ==
    (pc = "render" /\ \E f \in uploader : ~f.parses) =>
        /\ "load_error" \in messages
        /\ Present("inventory_data") => session_state["inventory_data"] = <<>>
        /\ Present("reorder_data") => session_state["reorder_data"] = <<>>

----------------------------------------------------------------------------
\* Claims about extract_date_range (SpecDates)

RECURSIVE finditer(_, _, _)
\* the matches of a pattern in a text, leftmost first and non-overlapping,
\* each with the position where it starts
finditer(pattern, t, i) ==
    IF i > Len(t) THEN {}
    ELSE LET e == match_at(pattern, t, i) IN
         IF e = 0 THEN finditer(pattern, t, i + 1)
         ELSE {[at |-> i, text |-> SubSeq(t, i, e - 1)]} \cup finditer(pattern, t, e)

\* the date-like substrings of a text, of either form
Occurrences(t) == finditer("slash", t, 1) \cup finditer("iso", t, 1)

FirstAt(t, d) ==
    CHOOSE i \in {o.at : o \in {x \in Occurrences(t) : x.text = d}} :
        \A o \in Occurrences(t) : o.text = d => i <= o.at

\* the distinct date-like substrings in the order of their first
\* occurrence in the text, the first two of them
FirstTwoByOccurrence(t) ==
    LET ds == {o.text : o \in Occurrences(t)}
        earliest(S) == CHOOSE d \in S : \A e \in S : FirstAt(t, d) <= FirstAt(t, e)
    IN  IF ds = {} THEN <<>>
        ELSE IF Cardinality(ds) = 1 THEN <<earliest(ds)>>
        ELSE <<earliest(ds), earliest(ds \ {earliest(ds)})>>

\* C11, as stated: extract_date_range returns the first two distinct
\* date-like substrings of the first cell of the last row, of whichever
\* form, in the order of their first occurrence in that text, and the empty
\* sequence for an empty dataset or a text without a match.
C11_AsStated ==
    (step = "extract_date_range") =>
        date_range = IF data.rows = <<>> THEN <<>>
                     ELSE FirstTwoByOccurrence(
                              str(data.rows[Len(data.rows)]["Unnamed: 0"]))

\* the keys of the feed tables, of the union and of the stamped table
CatalogKeys ==
    {session_key(SHEET_CONFIGS[i]) : i \in 1..Len(SHEET_CONFIGS)}
        \cup {"google_product_codes", "reorder_data_with_status"}

\* two stores hold the same value, or none, under every key of the set
SameUnder(keys, a, b) ==
    \A key \in keys :
        /\ key \in DOMAIN a <=> key \in DOMAIN b
        /\ key \in DOMAIN a => a[key] = b[key]

\* the refresh that just completed directly followed a completed refresh,
\* the remote unchanged between the two
SecondRefreshDone ==
    RefreshDone /\ history.event = "refresh" /\ history.after_refresh

\* C14: a refresh that directly follows a refresh, the remote feeds
\* unchanged, leaves the feed tables, the product-code union and the
\* status-stamped reorder table as the first refresh left them.
C14_RefreshIdempotent ==
    SecondRefreshDone => SameUnder(CatalogKeys, before.ss, session_state)

\* a second refresh with a failing feed, a feed holding a code and a
\* stamped reorder row
C14_Witness ==
    /\ SecondRefreshDone
    /\ \E sheet \in Feeds : remote[sheet].status = "error"
    /\ session_state["google_product_codes"] # {}
    /\ Present("reorder_data_with_status")
    /\ \E i \in 1..Len(session_state["reorder_data_with_status"]) :
          session_state["reorder_data_with_status"][i].Ordered = "Ordered"

----------------------------------------------------------------------------
\* Claims about the export (SpecExport).  Re-parsing is pd.read_csv with
\* its defaults, the reader that matches DataFrame.to_csv.

RECURSIVE tokenize(_, _, _, _, _, _)
\* the lines of a delimited text as sequences of fields: i is the position,
\* field and row what has been read of the current field and line, inq
\* whether the position is inside a quoted field
tokenize(t, i, field, row, rows, inq) ==
    IF i > Len(t)
    THEN IF field = <<>> /\ row = <<>> THEN rows ELSE Append(rows, Append(row, field))
    ELSE IF inq
    THEN IF t[i] = "\""
         THEN IF i < Len(t) /\ t[i + 1] = "\""
              THEN tokenize(t, i + 2, Append(field, "\""), row, rows, TRUE)
              ELSE tokenize(t, i + 1, field, row, rows, FALSE)
         ELSE tokenize(t, i + 1, Append(field, t[i]), row, rows, TRUE)
    ELSE IF t[i] = "\"" /\ field = <<>>
    THEN tokenize(t, i + 1, field, row, rows, TRUE)
    ELSE IF t[i] = ","
    THEN tokenize(t, i + 1, <<>>, Append(row, field), rows, FALSE)
    ELSE IF t[i] = "\n"
    THEN tokenize(t, i + 1, <<>>, <<>>, Append(rows, Append(row, field)), FALSE)
    ELSE tokenize(t, i + 1, Append(field, t[i]), row, rows, FALSE)

\* the texts read_csv takes for a missing value
NAStrings ==
    {<<>>,
     <<"#", "N", "/", "A">>,
     <<"#", "N", "/", "A", " ", "N", "/", "A">>,
     <<"#", "N", "A">>,
     <<"-", "1", ".", "#", "I", "N", "D">>,
     <<"-", "1", ".", "#", "Q", "N", "A", "N">>,
     <<"-", "N", "a", "N">>,
     <<"-", "n", "a", "n">>,
     <<"1", ".", "#", "I", "N", "D">>,
     <<"1", ".", "#", "Q", "N", "A", "N">>,
     <<"<", "N", "A", ">">>,
     <<"N", "/", "A">>,
     <<"N", "A">>,
     <<"N", "U", "L", "L">>,
     <<"N", "a", "N">>,
     <<"n", "/", "a">>,
     <<"n", "a", "n">>,
     <<"n", "u", "l", "l">>}

\* a text the reader takes for an integer: blanks, a sign, digits
IntLike(t) ==
    LET u == strip(t)
        body == IF u # <<>> /\ Head(u) \in {"-", "+"} THEN Tail(u) ELSE u
    IN  body # <<>> /\ \A i \in 1..Len(body) : body[i] \in Range(Digits)

IntOf(t) ==
    LET u == strip(t)
    IN  IF Head(u) = "-" THEN -DecimalValue(Tail(u), 0)
        ELSE IF Head(u) = "+" THEN DecimalValue(Tail(u), 0)
        ELSE DecimalValue(u, 0)

\* a column as read_csv types it: integers when every field is an integer
\* text, floats when the others are missing values, else texts, a missing
\* value for each NA text
ReadColumn(fields) ==
    LET known == {i \in 1..Len(fields) : fields[i] \notin NAStrings}
        numeric == known # {} /\ \A i \in known : IntLike(fields[i])
    IN  [i \in 1..Len(fields) |->
            IF i \notin known THEN [k |-> "nan", s |-> <<>>, h |-> 0]
            ELSE IF numeric
            THEN [k |-> IF Cardinality(known) = Len(fields) THEN "int" ELSE "float",
                  s |-> <<>>, h |-> 2 * IntOf(fields[i])]
            ELSE [k |-> "str", s |-> fields[i], h |-> 0]]

\* pd.read_csv(text): the header's names and, for each name, its column
ReadCsv(t) ==
    LET lines == tokenize(t, 1, <<>>, <<>>, <<>>, FALSE)
        header == Head(lines)
        body == Tail(lines)
    IN  [name \in {header[j][1] : j \in 1..Len(header)} |->
            LET j == CHOOSE m \in 1..Len(header) : header[m][1] = name
            IN  ReadColumn([i \in 1..Len(body) |-> body[i][j]])]

Exported == step = "generate_csv_download"

\* C15, as stated: the exported text, read back, holds row for row the
\* product codes, units sold and balance stocks of the exported records,
\* the numbers as integers.
C15_AsStated ==
    Exported =>
        LET back == ReadCsv(csv_data) IN
        /\ Len(back["Product Code"]) = Len(stamped)
        /\ \A i \in 1..Len(stamped) :
              /\ back["Product Code"][i] = stamped[i].ProductCode
              /\ back["Unit Sold"][i] =
                    [k |-> "int", s |-> <<>>, h |-> 2 * stamped[i].UnitSold]
              /\ back["Balance Stock"][i] =
                    [k |-> "int", s |-> <<>>, h |-> 2 * stamped[i].BalanceStock]

----------------------------------------------------------------------------
\* Claims about uploads and failures (Spec)

\* the script run an upload started has gone through handle_file_upload
UploadHandled == history.event = "upload" /\ pc \in {"render", "idle"}

\* C16, as stated: after an upload whose spreadsheet parses, the session's
\* inventory_data, reorder_data and date_range are the ones derived from
\* the spreadsheet just uploaded.
C16_AsStated ==
    UploadHandled =>
        \A f \in uploader :
            f.parses =>
                /\ Present("inventory_data")
                /\ session_state["inventory_data"] = extract_inventory_data(f.df).df
                /\ Present("reorder_data")
                /\ session_state["reorder_data"] =
                      get_reorder_items(extract_inventory_data(f.df).df)
                /\ Present("date_range")
                /\ session_state["date_range"] = extract_date_range(f.df)

\* what fetch_google_sheet_data answers for each feed, given the cache
Fetched(cache) ==
    [sheet \in Feeds |-> fetch_google_sheet_data(cache, remote, sheet).result]

\* the store holds an empty table for every feed whose fetch failed, the
\* fetched table for every other feed, and as union the codes of the feeds
\* whose fetch succeeded
Contained(results, ss) ==
    /\ \A sheet \in Feeds :
          /\ session_key(sheet) \in DOMAIN ss
          /\ ss[session_key(sheet)] =
                IF results[sheet].isnone THEN EmptyFrame ELSE results[sheet].df
    /\ ss["google_product_codes"] =
          UNION {product_codes(results[sheet].df) :
                    sheet \in {x \in Feeds : ~results[x].isnone}}

\* C17: in a load of the feeds (no feed in the session yet) and in a
\* refresh, a feed whose fetch fails is stored as an empty table, every
\* other feed is fetched and stored, and the union is the union of the codes
\* of the feeds whose fetch succeeded.
C17_FailureContained ==
    [][/\ (RenderSidebar /\ \A sheet \in Feeds : ~Present(session_key(sheet)))
          => Contained(Fetched(fetch_cache), session_state')
       /\ HandleDataRefresh => Contained(Fetched(EmptyMap), session_state')]_vars

\* the first feed failed and the second, loaded after it, gave its codes
C17_Witness ==
    /\ history.event = "open"
    /\ pc = "upload"
    /\ remote[SHEET_CONFIGS[1]].status = "error"
    /\ session_state[session_key(SHEET_CONFIGS[1])] = EmptyFrame
    /\ session_state[session_key(SHEET_CONFIGS[2])].rows # <<>>
    /\ session_state["google_product_codes"] =
          product_codes(session_state[session_key(SHEET_CONFIGS[2])])

FeedKeys == {session_key(sheet) : sheet \in Feeds}

UploadKeys == {"raw_excel_data", "inventory_data", "reorder_data", "date_range"}

\* C19: no step of a script run that a refresh started, the refresh handler
\* included, changes the raw upload, inventory_data, reorder_data or
\* date_range, and handling an upload changes neither a feed table nor the
\* product-code union.
C19_OwnedState ==
    [][/\ (history.event = "refresh" /\ history' = history)
          => SameUnder(UploadKeys, session_state, session_state')
       /\ HandleFileUpload
          => SameUnder(FeedKeys \cup {"google_product_codes"},
                       session_state, session_state')]_vars

\* a refresh that changed the union beside a processed upload
C19_Witness ==
    /\ RefreshDone
    /\ Present("inventory_data")
    /\ session_state["inventory_data"] # <<>>
    /\ Present("raw_excel_data")
    /\ before.ss["google_product_codes"] # session_state["google_product_codes"]
    /\ SameUnder(UploadKeys, before.ss, session_state)

----------------------------------------------------------------------------
\* Claims about fetch_google_sheet_data (SpecFetch)

FetchDone == step = "fetch_google_sheet_data"

\* the remote answered with a header row
HasHeader == answer.status = "ok" /\ answer.values # <<>>

\* every cell of the row is the empty string
FullyEmpty(row) == \A j \in 1..Len(row) : row[j] = <<>>

\* C21: the table a feed fetch returns holds no fully-empty row: a data row
\* whose cells are all empty, a row that arrived without a cell and was
\* padded included, is not in the result.
C21_AsStated ==
    FetchDone =>
        \A i \in 1..Len(fetch_result.df.rows) : ~FullyEmpty(fetch_result.df.rows[i])

\* the row of header width a data row stands for: its leading cells, then ''
HeaderWide(row, width) ==
    [j \in 1..width |-> IF j <= Len(row) THEN row[j] ELSE <<>>]

\* the rows that hold a filled cell, in order
Filled(rows) == SelectSeq(rows, LAMBDA row : ~FullyEmpty(row))

\* C22: when the remote answers with a header row, the result has the
\* header's columns, every row of it is exactly header-wide, and the data
\* rows that hold a filled cell within the header width are all there, in
\* order, each with its leading cells unchanged, padded with '' or cut to
\* the header width: a short or long row costs no other row.
C22_RowsNormalized ==
    (FetchDone /\ HasHeader) =>
        LET headers == Head(answer.values)
            data_rows == Tail(answer.values)
            out == fetch_result.df
        IN  /\ ~fetch_result.isnone
            /\ out.columns = headers
            /\ \A i \in 1..Len(out.rows) : Len(out.rows[i]) = Len(headers)
            /\ Filled(out.rows)
                  = Filled([i \in 1..Len(data_rows) |->
                              HeaderWide(data_rows[i], Len(headers))])

\* a two-column answer with a short row and a long row, both in the result
C22_Witness ==
    /\ FetchDone
    /\ HasHeader
    /\ Len(answer.values) = 3
    /\ Len(Head(answer.values)) = 2
    /\ answer.values[2] = <<(<<"A">>)>>
    /\ answer.values[3] = <<(<<>>), <<"A">>, <<"A">>>>
    /\ fetch_result.df.rows = <<(<<(<<"A">>), <<>>>>), <<(<<>>), <<"A">>>>>>

----------------------------------------------------------------------------
\* Claims about the row cap (SpecLoad)

Processed == step = "process_uploaded_file"

\* C23: the row cap is the last extraction step: the canonical collection
\* is the first min(n, MAX_ROWS) of the n cleaned records of the workbook (the
\* cap applies after empty and code-less rows are dropped), it never holds
\* more than MAX_ROWS records, and the truncation warning is shown exactly
\* when the cap discards records.
C23_AsStated ==
    Processed =>
        LET cleaned == extract_inventory_data(data).df
        IN  /\ extracted.df = head(cleaned, MAX_ROWS)
            /\ Len(extracted.df) <= MAX_ROWS
            /\ "truncation_warning" \in load_messages
                   <=> Len(cleaned) > MAX_ROWS

----------------------------------------------------------------------------
\* Claims about the top-N selectors (SpecTop)

\* how many rows of df come before row i when the rows are put by falling
\* Unit Sold, rows of equal Unit Sold in row order
RankOf(df, i) ==
    Cardinality({j \in 1..Len(df) :
                    \/ df[j].UnitSold > df[i].UnitSold
                    \/ df[j].UnitSold = df[i].UnitSold /\ j < i})

\* the first N rows of that ordering
StableTop(df, N) ==
    [k \in 1..(IF Len(df) < N THEN Len(df) ELSE N) |->
        df[CHOOSE i \in 1..Len(df) : RankOf(df, i) = k - 1]]

\* C24: the top-N selector returns the min(N, size) records with the
\* largest Unit Sold, by falling Unit Sold, records of equal Unit Sold in
\* their original row order.
C24_AsStated ==
    /\ step = "extract_top50" => top_rows = StableTop(inventory, 50)
    /\ step = "extract_top200" => top_rows = StableTop(inventory, 200)

----------------------------------------------------------------------------
\* Claims about the code union and the stored feed tables (Spec)

\* the Product Code values of a stored feed table: none without that column
StoredCodes(df) ==
    {c \in UNION {Range(df.rows[i]) : i \in 1..Len(df.rows)} :
        \E i \in 1..Len(df.rows), j \in 1..Len(df.columns) :
            df.columns[j] = "Product Code" /\ df.rows[i][j] = c}

\* the union over the feed tables now in the session
StoredUnion ==
    UNION {StoredCodes(session_state[key]) : key \in FeedKeys \cap DOMAIN session_state}

\* the sidebar of the page run is through, or the run was ended by the
\* st.rerun() of a refresh
FeedsSettled == pc \in {"upload", "render", "idle"} \/ RefreshDone

\* C25: once the feeds of a page run are loaded, and at its end, whatever
\* loads, refreshes and clears came before, google_product_codes is the
\* union of the Product Code values of the feed tables stored in the session;
\* a feed stored empty after a failure adds nothing.
C25_UnionMatchesFeeds ==
    FeedsSettled =>
        /\ Present("google_product_codes")
        /\ session_state["google_product_codes"] = StoredUnion

\* a page run ended after a full clear: one feed failed and is stored
\* empty, the other gives the union its code
C25_Witness ==
    /\ pc = "idle"
    /\ history.event = "clear"
    /\ Present("google_product_codes")
    /\ session_state["google_data_df_items"] = EmptyFrame
    /\ session_state["google_product_codes"] = {<<"B">>}
    /\ fetch_cache # EmptyMap

====
